---------------------------- MODULE Spec2Model ----------------------------
(***************************************************************************)
(* ChatViewSet.send_message of apps/assistant/views.py: validation,        *)
(* session lookup, provider selection, context assembly, the outbound call *)
(* and the persistence of the user message, the assistant reply and the    *)
(* session's provider conversation id.                                     *)
(*                                                                         *)
(* A request is handled by a slot.  The handler is cut at the points where *)
(* it touches the database or the network, so two slots interleave the way *)
(* two worker threads do.  Python None is the string "None" for string     *)
(* valued fields and the empty sequence for objects; an explicit id sent   *)
(* as a JSON number is its decimal string.                                 *)
(***************************************************************************)
EXTENDS Integers, Sequences, FiniteSets, TLC

VARIABLES
    model_configs,   \* AIModelConfig table, in the queryset's default order
    dify_configs,    \* DifyConfig table, in the queryset's default order
    sessions,        \* AssistantSession table: session_id -> row
    chat_messages,   \* ChatMessage table: rows in insertion order, id = position
    clock,           \* the database clock behind created_at
    req,             \* slot -> the request it handles and the handler's locals
    bindings,        \* session_id -> the values session.save() wrote, in order
    dispatched       \* requests that got as far as a provider

vars == <<model_configs, dify_configs, sessions, chat_messages, clock, req,
         bindings, dispatched>>

None == "None"

\* views.py:124, the slice [:10] of the history query
HistoryLimit == 10

\* ---- bounds of the model ----
\* requests that get as far as a provider: in Spec; in SeqSpec and
\* AccessSpec; in ConcSpec; in HistSpec
MaxRequests == 1
MaxSeqRequests == 3
MaxConcRequests == 2
MaxHistRequests == 1
\* rows of the session's log that exist before the first request in HistSpec
MaxPrior == 14

Users == {"u1", "u2"}
SessionIds == {"s1", "s2"}
\* AssistantSession.user of each stored session
OwnerOf(sid) == IF sid = "s1" THEN "u1" ELSE "u2"
\* the conversation ids a provider hands out: non-empty strings
ConversationIds == {"abc", "xyz"}

\* Python truthiness of a request value or a nullable string field
Truthy(v) == v # None /\ v # ""

\* int() as the ORM applies it to a primary-key lookup value; 0 stands for
\* the ValueError it raises on a malformed identifier
ParsePk(v) ==
    CASE v = "1" -> 1
      [] v = "2" -> 2
      [] v = "9" -> 9
      [] OTHER -> 0

Rows(table) == {table[i] : i \in 1..Len(table)}

\* filter(is_active=True).first(): the first active row of the table in
\* queryset order; None (the empty sequence) when there is none
FirstActiveRow(table) ==
    LET idx == {i \in 1..Len(table) : table[i].is_active}
    IN  IF idx = {} THEN <<>>
        ELSE <<table[CHOOSE i \in idx : \A j \in idx : i <= j]>>

\* Model.objects.get(id=v) and, with activeOnly, get(id=v, is_active=True):
\* the row, or the exception raised
NoResult == [raised |-> "", obj |-> <<>>]
OrmGet(table, v, activeOnly) ==
    LET pk == ParsePk(v)
        hits == {i \in 1..Len(table) :
                    table[i].id = pk /\ (activeOnly => table[i].is_active)}
    IN  IF pk = 0 THEN [raised |-> "ValueError", obj |-> <<>>]
        ELSE IF hits = {} THEN [raised |-> "DoesNotExist", obj |-> <<>>]
        ELSE [raised |-> "", obj |-> <<table[CHOOSE i \in hits : TRUE]>>]

\* Caught without ValueError: a malformed reference would end the request
CaughtDoesNotExist == {"DoesNotExist"}

\* the exceptions the two lookups of an explicit id catch and pass over
Caught == {"DoesNotExist", "ValueError"}

\* DifyConfig.get_active_config(): the currently active Dify config, if any
get_active_config(dc) == FirstActiveRow(dc)

\* ResolveProvider with the default Dify config tried before the explicit
\* Dify reference
ResolveProviderDefaultFirst(model_id, dify_config_id, mc, dc) ==
    LET byModel == IF Truthy(model_id) THEN OrmGet(mc, model_id, TRUE)
                   ELSE NoResult
        ai1 == byModel.obj
        dify1 == IF ai1 = <<>> THEN get_active_config(dc) ELSE <<>>
        byDify == IF ai1 = <<>> /\ dify1 = <<>> /\ Truthy(dify_config_id)
                  THEN OrmGet(dc, dify_config_id, FALSE)
                  ELSE NoResult
        dify2 == IF dify1 = <<>> THEN byDify.obj ELSE dify1
        ai2 == IF ai1 = <<>> /\ dify2 = <<>> THEN FirstActiveRow(mc)
               ELSE ai1
    IN  [ai_config |-> ai2, dify_config |-> dify2, uncaught |-> ""]

\* views.py:81-108.  ai_config and dify_config as the handler leaves them
\* before it branches; uncaught is an exception neither lookup catches.
ResolveProvider(model_id, dify_config_id, mc, dc) ==
    LET byModel == IF Truthy(model_id) THEN OrmGet(mc, model_id, TRUE)
                   ELSE NoResult
        ai1 == byModel.obj
        byDify == IF ai1 = <<>> /\ Truthy(dify_config_id)
                  THEN OrmGet(dc, dify_config_id, FALSE)
                  ELSE NoResult
        dify1 == byDify.obj
        dify2 == IF ai1 = <<>> /\ dify1 = <<>> THEN get_active_config(dc)
                 ELSE dify1
        ai2 == IF ai1 = <<>> /\ dify2 = <<>> THEN FirstActiveRow(mc)
               ELSE ai1
        uncaught == IF byModel.raised \notin Caught \cup {""} THEN byModel.raised
                    ELSE IF byDify.raised \notin Caught \cup {""} THEN byDify.raised
                    ELSE ""
    IN  [ai_config |-> ai2, dify_config |-> dify2, uncaught |-> uncaught]

\* Validate with the message left unexamined
ValidateSessionOnly(session_id, message) == Truthy(session_id)

\* views.py:63: both required fields are present and non-empty
Validate(session_id, message) == Truthy(session_id) /\ Truthy(message)

\* GetSession without the filter on the requesting user
GetSessionAnyUser(tbl, session_id, user) ==
    IF session_id \in DOMAIN tbl
    THEN <<[session_id |-> session_id,
            conversation_id |-> tbl[session_id].conversation_id]>>
    ELSE <<>>

\* views.py:70-79, AssistantSession.objects.get(session_id=..., user=...):
\* the in-memory session object, or None for DoesNotExist
GetSession(tbl, session_id, user) ==
    IF session_id \in DOMAIN tbl /\ tbl[session_id].user = user
    THEN <<[session_id |-> session_id,
            conversation_id |-> tbl[session_id].conversation_id]>>
    ELSE <<>>

NoUpstream == [kind |-> "none", status_code |-> 0, text |-> "", conversation_id |-> None]

IdleReq ==
    [pc |-> "idle", user |-> None, session_id |-> None, message |-> None,
     model_id |-> None, dify_config_id |-> None,
     looked |-> {}, session |-> <<>>, ai_config |-> <<>>, dify_config |-> <<>>,
     user_message |-> 0, messages_payload |-> <<>>, payload_conversation_id |-> None,
     calls |-> 0, upstream |-> NoUpstream, saved_session |-> FALSE,
     assistant_message |-> 0,
     status |-> 0, error |-> "", error_code |-> 0, detail |-> ""]

Respond(q, status, error, detail) ==
    [q EXCEPT !.pc = "respond", !.status = status, !.error = error, !.detail = detail]

\* views.py:58-108: the handler up to the branch on the provider
Begin(user, session_id, message, model_id, dify_config_id) ==
    LET q0 == [IdleReq EXCEPT !.user = user, !.session_id = session_id,
                              !.message = message, !.model_id = model_id,
                              !.dify_config_id = dify_config_id]
        session == GetSession(sessions, session_id, user)
        q1 == [q0 EXCEPT !.looked = {"session"}, !.session = session]
        chosen == ResolveProvider(model_id, dify_config_id, model_configs, dify_configs)
        q2 == [q1 EXCEPT !.looked = {"session", "configs"},
                         !.ai_config = chosen.ai_config,
                         !.dify_config = chosen.dify_config]
    IN  IF ~Validate(session_id, message) THEN Respond(q0, 400, "required", "")
        ELSE IF session = <<>> THEN Respond(q1, 404, "no_session", "")
        ELSE IF chosen.uncaught # "" THEN Respond(q2, 500, "lookup_raised", chosen.uncaught)
        ELSE IF chosen.ai_config = <<>> /\ chosen.dify_config = <<>>
             THEN Respond(q2, 400, "no_provider", "")
        ELSE [q2 EXCEPT !.pc = "dispatch"]

Receive(r, sc) ==
    /\ req[r].pc = "idle"
    /\ \E user \in sc.users, session_id \in sc.session_ids, message \in sc.messages,
          model_id \in sc.model_ids, dify_config_id \in sc.dify_config_ids :
          LET q == Begin(user, session_id, message, model_id, dify_config_id)
          IN  /\ q.pc = "dispatch" => dispatched < sc.cap
              /\ req' = [req EXCEPT ![r] = q]
              /\ dispatched' = IF q.pc = "dispatch" THEN dispatched + 1 ELSE dispatched
    /\ UNCHANGED <<model_configs, dify_configs, sessions, chat_messages, clock, bindings>>

\* ChatMessage.objects.create(...): the row appended; by is the requesting
\* user, kept to state who wrote the row
NewRow(q, role, t, conversation_id) ==
    [id |-> Len(chat_messages) + 1, session |-> q.session[1].session_id,
     role |-> role, created_at |-> t, conversation_id |-> conversation_id,
     by |-> q.user]

\* views.py:112-118 and 207-213: the user's message is saved
SaveUserMessage(r, sc) ==
    /\ req[r].pc = "dispatch"
    /\ \E d \in sc.ticks :
          LET row == NewRow(req[r], "user", clock + d,
                            req[r].session[1].conversation_id)
          IN  /\ chat_messages' = Append(chat_messages, row)
              /\ clock' = clock + d
              /\ req' = [req EXCEPT ![r].pc = "saved", ![r].user_message = row.id]
    /\ UNCHANGED <<model_configs, dify_configs, sessions, bindings, dispatched>>

\* order_by('-created_at'): x comes no later than y; rows with equal
\* created_at come in the order the database picks, by id either way
ComesFirst(x, y, tie) ==
    \/ x.created_at > y.created_at
    \/ /\ x.created_at = y.created_at
       /\ IF tie = "asc" THEN x.id <= y.id ELSE x.id >= y.id

RECURSIVE OrderByCreatedDesc(_, _)
OrderByCreatedDesc(S, tie) ==
    IF S = {} THEN <<>>
    ELSE LET m == CHOOSE x \in S : \A y \in S : ComesFirst(x, y, tie)
         IN  <<m>> \o OrderByCreatedDesc(S \ {m}, tie)

Reverse(s) == [i \in 1..Len(s) |-> s[Len(s) + 1 - i]]

\* History without exclude(id=user_message_obj.id)
HistoryWithCurrent(rows, session_id, user_message, tie) ==
    LET mine == {m \in Rows(rows) : m.session = session_id}
        newest == OrderByCreatedDesc(mine, tie)
        n == IF Len(newest) < HistoryLimit THEN Len(newest) ELSE HistoryLimit
    IN  Reverse(SubSeq(newest, 1, n))

\* views.py:123-125: the session's rows but the one just saved, newest
\* first, the first HistoryLimit of them, reversed
History(rows, session_id, user_message, tie) ==
    LET mine == {m \in Rows(rows) : m.session = session_id /\ m.id # user_message}
        newest == OrderByCreatedDesc(mine, tie)
        n == IF Len(newest) < HistoryLimit THEN Len(newest) ELSE HistoryLimit
    IN  Reverse(SubSeq(newest, 1, n))

\* views.py:134
ForwardedRole(role) == IF role = "assistant" THEN "assistant" ELSE "user"

\* views.py:127-144: the context sent to the model.  row names the stored
\* row an entry is built from: 0 for the system instruction, and for the
\* current message the row saved for it.
MessagesPayload(history, user_message) ==
    <<[role |-> "system", row |-> 0]>>
    \o [i \in 1..Len(history) |->
          [role |-> ForwardedRole(history[i].role), row |-> history[i].id]]
    \o <<[role |-> "user", row |-> user_message]>>

\* what requests.post(..., timeout=60) and the reading of its response can
\* end in: a 200 the handler can read, a non-200 with its body, a
\* requests Timeout, another RequestException, any other exception (a 200
\* whose body is not what the handler expects among them)
UpstreamErrors ==
    {[kind |-> "http_error", status_code |-> 503, text |-> "overloaded", conversation_id |-> None],
     [kind |-> "http_error", status_code |-> 401, text |-> "denied", conversation_id |-> None],
     [kind |-> "timeout", status_code |-> 0, text |-> "", conversation_id |-> None],
     [kind |-> "transport", status_code |-> 0, text |-> "", conversation_id |-> None],
     [kind |-> "other", status_code |-> 0, text |-> "", conversation_id |-> None]}
ModelUpstream ==
    {[kind |-> "ok", status_code |-> 200, text |-> "", conversation_id |-> None]}
    \cup UpstreamErrors
DifyUpstream ==
    {[kind |-> "ok", status_code |-> 200, text |-> "", conversation_id |-> c] :
        c \in ConversationIds \cup {None}}
    \cup UpstreamErrors

\* views.py:120-171: history, context and the POST to the model
CallModel(r, sc) ==
    /\ req[r].pc = "saved"
    /\ req[r].ai_config # <<>>
    /\ \E tie \in sc.ties, up \in ModelUpstream :
          LET history == History(chat_messages, req[r].session[1].session_id,
                                 req[r].user_message, tie)
          IN  req' = [req EXCEPT ![r].pc = "replied",
                                 ![r].messages_payload =
                                     MessagesPayload(history, req[r].user_message),
                                 ![r].calls = @ + 1,
                                 ![r].upstream = up]
    /\ UNCHANGED <<model_configs, dify_configs, sessions, chat_messages, clock,
                   bindings, dispatched>>

\* PayloadConversationId with the key never added
PayloadWithoutConversationId(session) == None

\* views.py:229-231: the conversation id the Dify payload carries, None when
\* the key is left out
PayloadConversationId(session) ==
    IF Truthy(session.conversation_id) THEN session.conversation_id ELSE None

\* views.py:215-241: payload and the POST to Dify
CallDify(r) ==
    /\ req[r].pc = "saved"
    /\ req[r].ai_config = <<>>
    /\ req[r].dify_config # <<>>
    /\ \E up \in DifyUpstream :
          req' = [req EXCEPT ![r].pc = "replied",
                             ![r].payload_conversation_id =
                                 PayloadConversationId(req[r].session[1]),
                             ![r].calls = @ + 1,
                             ![r].upstream = up]
    /\ UNCHANGED <<model_configs, dify_configs, sessions, chat_messages, clock,
                   bindings, dispatched>>

\* views.py:173-193: the model's reply is saved and returned
SaveModelReply(r, sc) ==
    /\ req[r].pc = "replied"
    /\ req[r].ai_config # <<>>
    /\ req[r].upstream.kind = "ok"
    /\ \E d \in sc.ticks :
          LET row == NewRow(req[r], "assistant", clock + d,
                            req[r].session[1].conversation_id)
          IN  /\ chat_messages' = Append(chat_messages, row)
              /\ clock' = clock + d
              /\ req' = [req EXCEPT ![r] =
                            Respond([@ EXCEPT !.assistant_message = row.id], 200, "", "")]
    /\ UNCHANGED <<model_configs, dify_configs, sessions, bindings, dispatched>>

\* ShouldBind whether or not the session has a conversation id
ShouldBindAnyReply(data, session) == data.conversation_id # None

\* views.py:247, the guard of the first-reply binding
ShouldBind(data, session) ==
    data.conversation_id # None /\ ~Truthy(session.conversation_id)

\* BindConversation deciding on the stored row as it is now, not on the
\* session object the request loaded
BindConversationFresh(r) ==
    /\ req[r].pc = "replied"
    /\ req[r].ai_config = <<>>
    /\ req[r].upstream.kind = "ok"
    /\ LET sid == req[r].session[1].session_id
           cid == req[r].upstream.conversation_id
       IN  IF ShouldBind(req[r].upstream, sessions[sid])
           THEN /\ sessions' = [sessions EXCEPT ![sid].conversation_id = cid]
                /\ bindings' = [bindings EXCEPT ![sid] = Append(@, cid)]
                /\ req' = [req EXCEPT ![r].pc = "bound",
                                      ![r].session[1].conversation_id = cid,
                                      ![r].saved_session = TRUE]
           ELSE /\ req' = [req EXCEPT ![r].pc = "bound"]
                /\ UNCHANGED <<sessions, bindings>>
    /\ UNCHANGED <<model_configs, dify_configs, chat_messages, clock, dispatched>>

\* views.py:243-249: the session takes the reply's conversation id
BindConversation(r) ==
    /\ req[r].pc = "replied"
    /\ req[r].ai_config = <<>>
    /\ req[r].upstream.kind = "ok"
    /\ LET sid == req[r].session[1].session_id
           cid == req[r].upstream.conversation_id
       IN  IF ShouldBind(req[r].upstream, req[r].session[1])
           THEN /\ sessions' = [sessions EXCEPT ![sid].conversation_id = cid]
                /\ bindings' = [bindings EXCEPT ![sid] = Append(@, cid)]
                /\ req' = [req EXCEPT ![r].pc = "bound",
                                      ![r].session[1].conversation_id = cid,
                                      ![r].saved_session = TRUE]
           ELSE /\ req' = [req EXCEPT ![r].pc = "bound"]
                /\ UNCHANGED <<sessions, bindings>>
    /\ UNCHANGED <<model_configs, dify_configs, chat_messages, clock, dispatched>>

\* views.py:251-265: Dify's reply is saved and returned
SaveDifyReply(r, sc) ==
    /\ req[r].pc = "bound"
    /\ \E d \in sc.ticks :
          LET row == NewRow(req[r], "assistant", clock + d,
                            req[r].upstream.conversation_id)
          IN  /\ chat_messages' = Append(chat_messages, row)
              /\ clock' = clock + d
              /\ req' = [req EXCEPT ![r] =
                            Respond([@ EXCEPT !.assistant_message = row.id], 200, "", "")]
    /\ UNCHANGED <<model_configs, dify_configs, sessions, bindings, dispatched>>

\* FailureResponse answering a timeout with 408 on the model path too
FailureResponseTimeoutBoth(isModel, up) ==
    IF up.kind = "http_error"
    THEN [status |-> 500, error |-> IF isModel THEN "model_api" ELSE "dify_api",
          code |-> up.status_code, detail |-> up.text]
    ELSE IF up.kind = "timeout"
    THEN [status |-> 408, error |-> "timeout", code |-> 0, detail |-> ""]
    ELSE IF isModel
    THEN [status |-> 500, error |-> "ai_failed", code |-> 0, detail |-> ""]
    ELSE IF up.kind = "transport"
    THEN [status |-> 500, error |-> "request_failed", code |-> 0, detail |-> ""]
    ELSE [status |-> 500, error |-> "unhandled", code |-> 0, detail |-> ""]

\* views.py:194-203 and 266-279: the response to a failed outbound call.
\* On the Dify path an exception that is no RequestException leaves the
\* handler, and the framework answers 500.  code is the upstream status the
\* error message quotes.
FailureResponse(isModel, up) ==
    IF up.kind = "http_error"
    THEN [status |-> 500, error |-> IF isModel THEN "model_api" ELSE "dify_api",
          code |-> up.status_code, detail |-> up.text]
    ELSE IF isModel
    THEN [status |-> 500, error |-> "ai_failed", code |-> 0, detail |-> ""]
    ELSE IF up.kind = "timeout"
    THEN [status |-> 408, error |-> "timeout", code |-> 0, detail |-> ""]
    ELSE IF up.kind = "transport"
    THEN [status |-> 500, error |-> "request_failed", code |-> 0, detail |-> ""]
    ELSE [status |-> 500, error |-> "unhandled", code |-> 0, detail |-> ""]

\* FailReply taking the user's message back out of the log
FailReplyRollback(r) ==
    /\ req[r].pc = "replied"
    /\ req[r].upstream.kind # "ok"
    /\ LET f == FailureResponse(req[r].ai_config # <<>>, req[r].upstream)
           Kept(m) == m.id # req[r].user_message
       IN  /\ req' = [req EXCEPT ![r] =
                        Respond([@ EXCEPT !.error_code = f.code], f.status, f.error, f.detail)]
           /\ chat_messages' = SelectSeq(chat_messages, Kept)
    /\ UNCHANGED <<model_configs, dify_configs, sessions, clock, bindings, dispatched>>

\* the failed call is answered; nothing is written
FailReply(r) ==
    /\ req[r].pc = "replied"
    /\ req[r].upstream.kind # "ok"
    /\ LET f == FailureResponse(req[r].ai_config # <<>>, req[r].upstream)
       IN  req' = [req EXCEPT ![r] =
                      Respond([@ EXCEPT !.error_code = f.code], f.status, f.error, f.detail)]
    /\ UNCHANGED <<model_configs, dify_configs, sessions, chat_messages, clock,
                   bindings, dispatched>>

\* the response leaves; the slot is free for the next request
Return(r) ==
    /\ req[r].pc = "respond"
    /\ req' = [req EXCEPT ![r] = IdleReq]
    /\ UNCHANGED <<model_configs, dify_configs, sessions, chat_messages, clock,
                   bindings, dispatched>>

\* ---- the tables before the first request ----
Slots == {"r1", "r2"}

\* a table of configs 1 and 2, first in queryset order one of firsts, with
\* any active flags
Tables(firsts) ==
    {<<[id |-> a, is_active |-> fa], [id |-> 3 - a, is_active |-> fb]>> :
        a \in firsts, fa \in BOOLEAN, fb \in BOOLEAN}
\* config 1 active, config 2 not
OneActive == <<[id |-> 1, is_active |-> TRUE], [id |-> 2, is_active |-> FALSE]>>

NewSessions ==
    [s \in SessionIds |-> [user |-> OwnerOf(s), conversation_id |-> None]]

\* a log written by earlier requests: user and assistant rows in turn, two
\* rows per clock value, every fifth row in the other user's session
PriorRow(i) ==
    LET sid == IF i % 5 = 0 THEN "s2" ELSE "s1"
    IN  [id |-> i, session |-> sid,
         role |-> IF i % 2 = 1 THEN "user" ELSE IF i % 4 = 0 THEN "system" ELSE "assistant",
         created_at |-> (i + 1) \div 2, conversation_id |-> None, by |-> OwnerOf(sid)]
PriorLog(n) == [i \in 1..n |-> PriorRow(i)]

InitWith(tables, difyTables, priors) ==
    /\ model_configs \in tables
    /\ dify_configs \in difyTables
    /\ sessions = NewSessions
    /\ \E n \in priors : chat_messages = PriorLog(n) /\ clock = (n + 1) \div 2
    /\ req = [r \in Slots |-> IdleReq]
    /\ bindings = [s \in SessionIds |-> <<>>]
    /\ dispatched = 0

\* ---- what the clients send ----
ExplicitIds == {None, "", "1", "2", "9", "abc"}

\* every explicit reference, one user and session
ResolveScope ==
    [slots |-> {"r1"}, users |-> {"u1"},
     session_ids |-> {"s1"}, messages |-> {"hi"},
     model_ids |-> ExplicitIds, dify_config_ids |-> ExplicitIds,
     ticks |-> {1}, ties |-> {"asc"}, cap |-> MaxRequests]

\* every user, session reference and message
AccessScope ==
    [slots |-> {"r1"}, users |-> Users,
     session_ids |-> {None, "", "s1", "s2", "s9"}, messages |-> {None, "", "hi"},
     model_ids |-> {None, "1"}, dify_config_ids |-> {None},
     ticks |-> {1}, ties |-> {"asc"}, cap |-> MaxSeqRequests]

\* one request at a time, on either path, each user on their own or the
\* other's session
SeqScope ==
    [slots |-> {"r1"}, users |-> Users,
     session_ids |-> SessionIds, messages |-> {"hi"},
     model_ids |-> {None, "1"}, dify_config_ids |-> {None},
     ticks |-> {1}, ties |-> {"asc"}, cap |-> MaxSeqRequests]

\* two requests at a time, on one session
ConcScope ==
    [SeqScope EXCEPT !.slots = Slots, !.users = {"u1"}, !.session_ids = {"s1"},
                     !.cap = MaxConcRequests]

\* one session with a log, clock values that repeat, either tie order
HistScope ==
    [SeqScope EXCEPT !.users = {"u1"}, !.session_ids = {"s1"},
                     !.ticks = {0, 1}, !.ties = {"asc", "desc"},
                     !.cap = MaxHistRequests]

Step(r, sc) ==
    \/ Receive(r, sc)
    \/ SaveUserMessage(r, sc)
    \/ CallModel(r, sc)
    \/ CallDify(r)
    \/ SaveModelReply(r, sc)
    \/ BindConversation(r)
    \/ SaveDifyReply(r, sc)
    \/ FailReply(r)
    \/ Return(r)

Init == InitWith(Tables({1, 2}), Tables({1}), {0})
Next == \E r \in ResolveScope.slots : Step(r, ResolveScope)
Spec == Init /\ [][Next]_vars

\* both kinds of provider configured: config 1 of each is active
SeqInit == InitWith({OneActive}, {OneActive}, {0})

AccessNext == \E r \in AccessScope.slots : Step(r, AccessScope)
AccessSpec == SeqInit /\ [][AccessNext]_vars

SeqNext == \E r \in SeqScope.slots : Step(r, SeqScope)
SeqSpec == SeqInit /\ [][SeqNext]_vars

ConcNext == \E r \in ConcScope.slots : Step(r, ConcScope)
ConcSpec == SeqInit /\ [][ConcNext]_vars

HistInit == InitWith({OneActive}, {OneActive}, 0..MaxPrior)
HistNext == \E r \in HistScope.slots : Step(r, HistScope)
HistSpec == HistInit /\ [][HistNext]_vars

\* ---- provider selection ----
Busy(r) == req[r].pc # "idle"
\* a request field that is absent or empty
Missing(v) == v \in {None, ""}
\* the request got past validation and the session lookup
Admitted(r) == Busy(r) /\ "configs" \in req[r].looked
OnModel(r) == req[r].ai_config # <<>>
OnDify(r) == req[r].ai_config = <<>> /\ req[r].dify_config # <<>>

\* how a client writes the primary key of a stored config
PkText(pk) == IF pk = 1 THEN "1" ELSE "2"
\* the configs an explicit reference names
NamedModels(r) == {c \in Rows(model_configs) : PkText(c.id) = req[r].model_id}
NamedDifys(r) == {c \in Rows(dify_configs) : PkText(c.id) = req[r].dify_config_id}
ActiveRows(table) == {c \in Rows(table) : c.is_active}
\* the first active row of a table in queryset order, as a set
FirstActive(table) ==
    {table[i] : i \in {k \in 1..Len(table) :
                          /\ table[k].is_active
                          /\ \A j \in 1..(k - 1) : ~table[j].is_active}}
UsesModel(r, c) == req[r].ai_config = <<c>> /\ req[r].dify_config = <<>>
UsesDify(r, c) == req[r].dify_config = <<c>> /\ req[r].ai_config = <<>>
NoProvider(r) ==
    /\ req[r].pc = "respond" /\ req[r].status = 400 /\ req[r].error = "no_provider"
    /\ req[r].ai_config = <<>> /\ req[r].dify_config = <<>>

\* C1: the provider of an admitted request is the first match of: the
\* explicit model config if active; the explicit Dify config, active or not;
\* the active Dify config; the first active model config.  With no match
\* the request ends in the no-provider 400.
C1_ResolutionOrder ==
    \A r \in Slots : Admitted(r) =>
        LET byModel == NamedModels(r) \cap ActiveRows(model_configs)
            byDify == NamedDifys(r)
        IN  IF byModel # {} THEN \E c \in byModel : UsesModel(r, c)
            ELSE IF byDify # {} THEN \E c \in byDify : UsesDify(r, c)
            ELSE IF ActiveRows(dify_configs) # {}
                 THEN \E c \in ActiveRows(dify_configs) : UsesDify(r, c)
            ELSE IF ActiveRows(model_configs) # {}
                 THEN \E c \in FirstActive(model_configs) : UsesModel(r, c)
            ELSE NoProvider(r)

\* C1 witness: both references name configs, the model config is inactive
\* and the Dify config is too, while another Dify config is active: the
\* explicit inactive Dify config is the provider.
C1_Witness ==
    \E r \in Slots :
        /\ req[r].pc = "dispatch"
        /\ req[r].model_id = "2" /\ req[r].dify_config_id = "2"
        /\ \E c \in Rows(model_configs) : c.id = 2 /\ ~c.is_active
        /\ \E c \in Rows(model_configs) : c.id = 1 /\ c.is_active
        /\ \E c \in Rows(dify_configs) : c.id = 1 /\ c.is_active
        /\ \E c \in Rows(dify_configs) : c.id = 2 /\ ~c.is_active /\ UsesDify(r, c)

\* an explicit reference that picks no provider by its own rule
DeadModelRef(r) ==
    ~Missing(req[r].model_id) /\ NamedModels(r) \cap ActiveRows(model_configs) = {}
DeadDifyRef(r) == ~Missing(req[r].dify_config_id) /\ NamedDifys(r) = {}

\* C2: an explicit reference that is unknown, malformed or (for a model)
\* inactive is no error by itself.  A dead model reference with a live Dify
\* reference dispatches to that Dify config; a dead Dify reference falls to
\* the active Dify config, then to the first active model config; the
\* request fails only where nothing is configured, with the no-provider 400.
C2_DeadReferenceFallsThrough ==
    \A r \in Slots : Admitted(r) /\ (DeadModelRef(r) \/ DeadDifyRef(r)) =>
        /\ req[r].error # "lookup_raised"
        /\ req[r].status \in {400, 500} /\ req[r].calls = 0 => NoProvider(r)
        /\ NoProvider(r) =>
              /\ ActiveRows(dify_configs) = {} /\ ActiveRows(model_configs) = {}
              /\ NamedDifys(r) = {}
        /\ DeadModelRef(r) /\ NamedDifys(r) # {} =>
              \E c \in NamedDifys(r) : UsesDify(r, c)
        /\ DeadDifyRef(r) /\ NamedModels(r) \cap ActiveRows(model_configs) = {} =>
              IF ActiveRows(dify_configs) # {}
              THEN \E c \in ActiveRows(dify_configs) : UsesDify(r, c)
              ELSE IF ActiveRows(model_configs) # {}
              THEN \E c \in FirstActive(model_configs) : UsesModel(r, c)
              ELSE NoProvider(r)

\* C2 witness: a malformed model reference beside a reference to a stored,
\* inactive Dify config, dispatched to that Dify config.
C2_Witness ==
    \E r \in Slots :
        /\ req[r].pc = "dispatch"
        /\ req[r].model_id = "abc" /\ req[r].dify_config_id = "2"
        /\ \E c \in Rows(dify_configs) : c.id = 2 /\ ~c.is_active /\ UsesDify(r, c)

\* ---- the session's conversation id ----
\* C3: in a sequential run a session's conversation id, once set, keeps
\* its value through every later step, whatever conversation id a later
\* reply carries.
C3_ConversationIdKept ==
    [][\A s \in SessionIds :
          sessions[s].conversation_id # None =>
              sessions'[s].conversation_id = sessions[s].conversation_id]_vars

\* C3 witness: the session is bound to "abc", a later Dify reply carried
\* "xyz", the binding step is over and the session still holds "abc".
C3_Witness ==
    \E r \in Slots :
        /\ req[r].pc = "bound"
        /\ req[r].upstream.conversation_id = "xyz"
        /\ sessions[req[r].session_id].conversation_id = "abc"
        /\ bindings[req[r].session_id] = <<"abc">>

\* ---- persistence of the two messages ----
RowOf(id) == chat_messages[id]
\* the request has made its outbound call
Called(r) == req[r].calls > 0
UserRowSaved(r) ==
    /\ req[r].user_message \in 1..Len(chat_messages)
    /\ RowOf(req[r].user_message).role = "user"
    /\ RowOf(req[r].user_message).session = req[r].session_id

\* C4: a request with a provider has its user message in the log before it
\* calls out; when the call fails the user message stays and the request
\* appends no assistant message; when it succeeds the request appends one
\* assistant message, after the user message.
C4_UserMessageThenReply ==
    \A r \in Slots :
        /\ Called(r) => UserRowSaved(r)
        /\ req[r].pc = "respond" /\ Called(r) /\ req[r].upstream.kind # "ok" =>
              /\ req[r].assistant_message = 0
              /\ Len(chat_messages) = req[r].user_message
        /\ req[r].pc = "respond" /\ Called(r) /\ req[r].upstream.kind = "ok" =>
              /\ req[r].assistant_message = req[r].user_message + 1
              /\ Len(chat_messages) = req[r].assistant_message
              /\ RowOf(req[r].assistant_message).role = "assistant"
              /\ RowOf(req[r].assistant_message).session = req[r].session_id

\* C4 witness: a timed-out call on either path has been answered, and the
\* log ends with the request's user message.
C4_Witness ==
    \E r \in Slots :
        /\ req[r].pc = "respond" /\ req[r].upstream.kind = "timeout"
        /\ UserRowSaved(r)
        /\ Len(chat_messages) = 3 /\ req[r].user_message = 3

\* ---- context assembly ----
SessionRows(sid) == {m \in Rows(chat_messages) : m.session = sid}
\* the stored rows the history entries of a context were built from
HistoryPart(mp) == SubSeq(mp, 2, Len(mp) - 1)
PriorRows(r) ==
    {m \in SessionRows(req[r].session_id) : m.id # req[r].user_message}

\* C5: right after the call on the model path the context is one system
\* instruction, then at most HistoryLimit prior rows of the session, the
\* most recent by creation time, oldest first and without the row just
\* saved, then the current message; the current message is in it once.
C5_ContextWindow ==
    \A r \in Slots : req[r].pc = "replied" /\ OnModel(r) =>
        LET mp == req[r].messages_payload
            h == HistoryPart(mp)
            used == {h[i].row : i \in 1..Len(h)}
        IN  /\ Len(mp) >= 2 /\ Len(mp) <= HistoryLimit + 2
            /\ mp[1] = [role |-> "system", row |-> 0]
            /\ mp[Len(mp)] = [role |-> "user", row |-> req[r].user_message]
            /\ \A i \in 1..Len(h) : h[i].role # "system"
            /\ Cardinality(used) = Len(h)
            /\ used \subseteq {m.id : m \in PriorRows(r)}
            /\ Len(h) = IF Cardinality(PriorRows(r)) < HistoryLimit
                        THEN Cardinality(PriorRows(r)) ELSE HistoryLimit
            /\ \A i \in 1..Len(h), j \in 1..Len(h) :
                  i < j => RowOf(h[i].row).created_at <= RowOf(h[j].row).created_at
            /\ \A m \in PriorRows(r) : m.id \notin used =>
                  \A i \in 1..Len(h) : m.created_at <= RowOf(h[i].row).created_at

\* C5 witness: the session holds more prior rows than the window takes, the
\* context is full, and a prior row as old as the oldest entry is left out.
C5_Witness ==
    \E r \in Slots :
        /\ req[r].pc = "replied" /\ OnModel(r)
        /\ Len(req[r].messages_payload) = HistoryLimit + 2
        /\ Cardinality(PriorRows(r)) > HistoryLimit
        /\ \E m \in PriorRows(r) :
              /\ \A i \in 2..(HistoryLimit + 1) : req[r].messages_payload[i].row # m.id
              /\ m.created_at = RowOf(req[r].messages_payload[2].row).created_at

\* ---- access to a session ----
OwnsSession(user, sid) == sid \in SessionIds /\ OwnerOf(sid) = user

\* C6: a valid request for a session that is unknown or another user's is
\* answered 404 with no provider contacted, no row appended and no session
\* saved; every row the handler wrote is in a session of the user who sent it.
C6_ForeignSessionRejected ==
    /\ \A r \in Slots :
          /\ Busy(r)
          /\ ~Missing(req[r].session_id) /\ ~Missing(req[r].message)
          /\ ~OwnsSession(req[r].user, req[r].session_id)
          => /\ req[r].pc = "respond" /\ req[r].status = 404
             /\ req[r].calls = 0 /\ req[r].user_message = 0
             /\ req[r].assistant_message = 0 /\ ~req[r].saved_session
             /\ req[r].ai_config = <<>> /\ req[r].dify_config = <<>>
    /\ \A m \in Rows(chat_messages) : sessions[m.session].user = m.by
    /\ \A s \in SessionIds :
          Len(bindings[s]) <= Cardinality({m \in Rows(chat_messages) :
                                              m.by = sessions[s].user})

\* C6 witness: u1 asks for u2's session after a request of u2 wrote to it.
C6_Witness ==
    \E r \in Slots :
        /\ req[r].pc = "respond" /\ req[r].status = 404
        /\ req[r].user = "u1" /\ req[r].session_id = "s2"
        /\ \E m \in Rows(chat_messages) : m.session = "s2" /\ m.by = "u2"

\* C7: a request with a missing or empty session_id or message is answered
\* 400 with no table read, no provider contacted and no row appended.
C7_RequiredFields ==
    \A r \in Slots :
        Busy(r) /\ (Missing(req[r].session_id) \/ Missing(req[r].message)) =>
        /\ req[r].pc = "respond" /\ req[r].status = 400 /\ req[r].error = "required"
        /\ req[r].looked = {} /\ req[r].session = <<>>
        /\ req[r].ai_config = <<>> /\ req[r].dify_config = <<>>
        /\ req[r].calls = 0
        /\ req[r].user_message = 0 /\ req[r].assistant_message = 0

\* C7 witness: the session_id is missing and the message is not.
C7_Witness ==
    \E r \in Slots :
        /\ req[r].pc = "respond" /\ req[r].status = 400
        /\ req[r].session_id = None /\ req[r].message = "hi"

\* ---- failures of the outbound call ----
\* C8: the answer to a failed call: an upstream non-200 gives 500 with the
\* upstream status and body, on both paths; a timeout gives 408 on the Dify
\* path and the generic 500 on the model path; any other failure gives 500.
\* No request calls out twice.
C8_FailureStatus ==
    \A r \in Slots :
        /\ req[r].calls <= 1
        /\ req[r].pc = "respond" /\ Called(r) /\ req[r].upstream.kind # "ok" =>
              LET up == req[r].upstream
              IN  /\ up.kind = "http_error" =>
                        /\ req[r].status = 500
                        /\ req[r].error_code = up.status_code
                        /\ req[r].detail = up.text
                  /\ up.kind = "timeout" /\ OnDify(r) =>
                        req[r].status = 408 /\ req[r].error = "timeout"
                  /\ up.kind = "timeout" /\ OnModel(r) =>
                        req[r].status = 500 /\ req[r].error = "ai_failed"
                  /\ up.kind \in {"transport", "other"} => req[r].status = 500

\* C8 witness: the model path answers a timeout with the generic 500.
C8_Witness ==
    \E r \in Slots :
        /\ req[r].pc = "respond" /\ OnModel(r)
        /\ req[r].upstream.kind = "timeout" /\ req[r].status = 500

\* ---- overlapping requests ----
\* C9: nothing keeps two requests on one session apart.  Every request that
\* read the session while it had no conversation id and got one in its
\* reply saves it, whatever the session holds by then, and the session
\* holds what the last save wrote.
C9_LastWriterWins ==
    /\ \A s \in SessionIds :
          bindings[s] # <<>> =>
              sessions[s].conversation_id = bindings[s][Len(bindings[s])]
    /\ \A r \in Slots :
          /\ OnDify(r)
          /\ req[r].pc \in {"bound", "respond"}
          /\ req[r].upstream.kind = "ok"
          /\ req[r].upstream.conversation_id # None
          /\ req[r].payload_conversation_id = None
          => req[r].saved_session

\* C9 witness: two requests on one session have both saved a conversation
\* id, and the first one's is gone.
C9_Witness ==
    \E r1 \in Slots, r2 \in Slots :
        /\ r1 # r2
        /\ req[r1].session_id = req[r2].session_id
        /\ req[r1].saved_session /\ req[r2].saved_session
        /\ req[r1].upstream.conversation_id = "abc"
        /\ req[r2].upstream.conversation_id = "xyz"
        /\ bindings[req[r1].session_id] = <<"abc", "xyz">>
        /\ sessions[req[r1].session_id].conversation_id = "xyz"

\* ---- multi-turn continuity ----
\* C10: in a sequential run the Dify request carries the conversation id
\* the session has when the request is built, and none when it has none:
\* none before the first binding, the bound id ever after.
C10_PayloadCarriesSessionId ==
    \A r \in Slots : OnDify(r) /\ Called(r) =>
        LET s == req[r].session_id
            held == IF req[r].saved_session THEN None
                    ELSE sessions[s].conversation_id
        IN  /\ req[r].payload_conversation_id = held
            /\ bindings[s] = <<>> => req[r].payload_conversation_id = None
            /\ bindings[s] # <<>> /\ ~req[r].saved_session =>
                  req[r].payload_conversation_id = bindings[s][1]

\* C10 witness: a Dify request built after the session was bound to "abc"
\* carries "abc".
C10_Witness ==
    \E r \in Slots :
        /\ OnDify(r) /\ req[r].pc = "replied"
        /\ req[r].payload_conversation_id = "abc"
        /\ bindings[req[r].session_id] = <<"abc">>

=============================================================================
